---- MODULE Spec2Model ----
(***************************************************************************)
(* Client-side components of the portfolio site.                           *)
(* Client Guard                                                            *)
(*   - aggressive variant: src/assets/js/resume-protection.js              *)
(*   - lighter variant:    src/assets/resume/resume.js                     *)
(* Resume Exporter:        downloadResume, src/assets/resume/resume.js     *)
(* Navigation Builder:     class Navigation, src/unnamed/part_000          *)
(* Page Loader:            src/assets/js/include.js                        *)
(* Mobile navigation:      src/assets/js/main.js                           *)
(* Timeouts and intervals are pending callbacks that fire at some later    *)
(* moment, each carrying the delay it was registered with; the event loop  *)
(* runs one callback at a time.                                            *)
(***************************************************************************)
EXTENDS Integers, Sequences, FiniteSets, TLC

(* ---------------- bounds of the model ---------------- *)
MaxWipes == 2          \* wipe triggers the environment may still cause
MaxInserted == 1       \* nodes the environment inserts
MaxPrint == 1          \* Ctrl+P presses with a delayed wipe still pending
MaxRestore == 1        \* restore timeouts pending when developer tools reopen
MaxExports == 2        \* invocations of downloadResume
MaxDepth == 3          \* segments of the path of the first document
MaxNavigations == 3    \* Navigation objects constructed on one document

(* ---------------- program constants ---------------- *)
threshold == 160               \* checkDevTools, resume-protection.js
RestoreDelay == 500            \* setTimeout(restoreOriginalContent, 500)
RearmDelay == 100              \* setTimeout(..., 100) in restoreOriginalContent
PrintDelay == 1000             \* setTimeout(removeHtmlElements, 1000)
PollPeriod == 100              \* setInterval(checkDevTools, 100)

Null == <<<<"null", 0>>>>         \* JavaScript null, told apart from every markup

(* ---------------- the document ---------------- *)
\* A node under the document element: <<name, n>>; a text node carries the
\* length n of its data, an element has n = 0.
TextNode(n) == <<"#text", n>>
Element(tag) == <<tag, 0>>
nodeType(node) == IF node[1] = "#text" THEN 3 ELSE 1
tagName(node) == IF node[1] = "#text" THEN "undefined" ELSE node[1]

PageContent == Element("PAGE")          \* head and body of the resume page
Overlay == Element("DIV#protection-overlay")
newBody == Element("BODY.protection-message")

InsertableNodes == {Element("SCRIPT"), Element("IFRAME"), Element("DIV"), TextNode(1)}

\* getter of documentElement.innerHTML: the children serialised in order; the
\* data of adjacent text nodes runs together in the markup.
RECURSIVE getInnerHTML(_)
getInnerHTML(dom) ==
    IF Len(dom) <= 1 THEN dom
    ELSE LET rest == getInnerHTML(Tail(dom))
             h == Head(dom)
         IN IF nodeType(h) = 3 /\ nodeType(Head(rest)) = 3
            THEN <<TextNode(h[2] + Head(rest)[2])>> \o Tail(rest)
            ELSE <<h>> \o rest

\* setter of documentElement.innerHTML: one node per chunk of markup.
setInnerHTML(markup) == [i \in 1..Len(markup) |-> markup[i]]

Truthy(s) == s # Null /\ s # <<>>

VARIABLES
    originalContent,   \* saved markup or Null
    isProtected,       \* TRUE = Wiped
    dom,               \* children of document.documentElement
    dims,              \* <<outerWidth - innerWidth, outerHeight - innerHeight>>
    consoleCheck,      \* console.firebug || console.exception of this browser
    started,           \* initProtection has run
    pollers,           \* one per detectDevTools call: [open, period]
    keydownListeners,  \* keydown/keyup listeners added by disableBrowserFeatures
    consoleOverridden, \* window.console replaced
    observers,         \* mutation observers on the document element
    debuggerIntervals, \* addDebuggerProtection intervals
    timers,            \* pending timeouts: the delays registered, per callback
    nWipes,            \* history: Guarded->Wiped transitions so far
    lastWiped,         \* history: markup at the latest Guarded->Wiped transition
    restoredCount,     \* history: restorations since the latest wipe
    nInserted,         \* history: nodes inserted so far
    \* ---- the lighter variant, resume.js ----
    isMobile,          \* const isMobile = isMobileDevice()
    isTablet,          \* const isTablet = isTabletLandscape()
    desktopRestrictions, \* the listeners of the desktop-only branch are installed
    contextMenuBlocked,  \* a contextmenu listener is installed
    body,              \* document.body.innerHTML of the resume page
    liteDims,          \* <<outerWidth - innerWidth, outerHeight - innerHeight>>
    stage,             \* "loading", "delay" (2000ms timeout pending) or "polling"
    \* ---- the Resume Exporter, downloadResume in resume.js ----
    elementStyle,      \* element.style of one gradient element per class
    containerStyle,    \* element.style of .container
    btnDisplay,        \* downloadBtn.style.display
    html2pdfLoaded,    \* the html2pdf library is defined on this page
    exports,           \* pending html2pdf promises, each with its closure
    nExports,          \* history: invocations of downloadResume so far
    lastOutcome,       \* history: how the latest pipeline call ended
    \* ---- the Navigation Builder, class Navigation ----
    pathname,          \* window.location.pathname, as its segments
    currentPage,       \* this.currentPage of the latest Navigation
    navStyles,         \* elements of the document that match '#nav-styles'
    navPlaceholders,   \* elements of the document that match '#nav-placeholder'
    navContainer,      \* the anchors rendered into the placeholder
    nNavigations,      \* history: Navigation objects constructed on this document
    \* ---- the Page Loader, include.js ----
    loaderPath,        \* window.location.pathname, as its pieces
    navbarFile,        \* the .nav-link elements of navbar.html
    containers,        \* innerHTML of the three placeholder containers
    navLinks,          \* 'active' of each #navbar-include .nav-link, by href
    callbackCalls,     \* history: calls of setActiveNav
    fetches,           \* per fragment: stage, response status, requests issued
    \* ---- the mobile navigation, main.js ----
    bodyClasses,       \* classList of body
    toggleClasses,     \* classList of .mobile-nav-toggle
    scrolledTo         \* the hash scrollto was last called with

guardVars == <<originalContent, isProtected, dom, dims, consoleCheck, started, pollers,
               keydownListeners, consoleOverridden, observers, debuggerIntervals,
               timers, nWipes, lastWiped, restoredCount, nInserted>>
liteVars == <<isMobile, isTablet, desktopRestrictions, contextMenuBlocked, body,
              liteDims, stage>>
exportVars == <<elementStyle, containerStyle, btnDisplay, html2pdfLoaded, exports,
                nExports, lastOutcome>>
navVars == <<pathname, currentPage, navStyles, navPlaceholders, navContainer,
             nNavigations>>
loaderVars == <<loaderPath, navbarFile, containers, navLinks, callbackCalls, fetches>>
menuVars == <<bodyClasses, toggleClasses, scrolledTo>>
vars == <<guardVars, liteVars, exportVars, navVars, loaderVars, menuVars>>

(* ---------------- ProtectionState operations ---------------- *)
G == [isProtected |-> isProtected, originalContent |-> originalContent, dom |-> dom]

\* variant: the early return on isProtected is missing
removeHtmlElementsUnguarded(g) ==
    [isProtected |-> TRUE, originalContent |-> getInnerHTML(g.dom), dom |-> <<newBody>>]

\* variant: the flag is set but the snapshot is not taken
removeHtmlElementsNoSnapshot(g) ==
    IF g.isProtected THEN g
    ELSE [isProtected |-> TRUE, originalContent |-> g.originalContent, dom |-> <<newBody>>]

\* variant: the snapshot is taken after the document was replaced
removeHtmlElementsLateSnapshot(g) ==
    IF g.isProtected THEN g
    ELSE [isProtected |-> TRUE,
          originalContent |-> getInnerHTML(<<newBody>>),
          dom |-> <<newBody>>]

removeHtmlElements(g) ==
    IF g.isProtected THEN g
    ELSE [isProtected |-> TRUE,
          originalContent |-> getInnerHTML(g.dom),
          dom |-> <<newBody>>]

\* variant: the isProtected test is missing
restoreGuardNoFlag(g) == Truthy(g.originalContent)

restoreGuard(g) == g.isProtected /\ Truthy(g.originalContent)

restoreOriginalContent(g) ==
    IF ~restoreGuard(g) THEN g
    ELSE [g EXCEPT !.dom = setInnerHTML(g.originalContent), !.isProtected = FALSE]

(* ---------------- the dimension heuristic ---------------- *)
\* variant: the chrome-adjusted threshold of the lighter variant
widthThreshold220(d) == d[1] > 220

widthThreshold(d) == d[1] > threshold
heightThreshold(d) == d[2] > threshold

\* one run of checkDevTools of the polling loop whose flag is p.open:
\* the new flag, the new ProtectionState, and whether a restore was scheduled
checkDevTools(p, g, d, cc) ==
    IF widthThreshold(d) \/ heightThreshold(d) \/ cc
    THEN IF ~p.open
         THEN [open |-> TRUE, g |-> removeHtmlElements(g), sched |-> FALSE]
         ELSE [open |-> p.open, g |-> g, sched |-> FALSE]
    ELSE IF p.open
         THEN [open |-> FALSE, g |-> g, sched |-> TRUE]
         ELSE [open |-> p.open, g |-> g, sched |-> FALSE]

(* ---------------- keyboard ---------------- *)
Key(c, s, k) == [ctrlKey |-> c, shiftKey |-> s, key |-> k]
CtrlU == Key(TRUE, FALSE, "u")
F12 == Key(FALSE, FALSE, "F12")
CtrlShiftI == Key(TRUE, TRUE, "I")
CtrlShiftC == Key(TRUE, TRUE, "C")
CtrlS == Key(TRUE, FALSE, "s")
CtrlP == Key(TRUE, FALSE, "p")
CtrlA == Key(TRUE, FALSE, "a")
PrintScreen == Key(FALSE, FALSE, "PrintScreen")
KeyEvents == {CtrlU, F12, CtrlShiftI, CtrlShiftC, CtrlS, CtrlP, CtrlA,
              Key(FALSE, FALSE, "u"), Key(TRUE, TRUE, "J")}

\* variant: Ctrl+P is blocked as in resume.js, without a delayed wipe
keydownHandlerPrintBlocked(e, g) ==
    IF (e.ctrlKey /\ e.key = "u") \/ e.key = "F12"
       \/ (e.ctrlKey /\ e.shiftKey /\ e.key \in {"I", "C"})
    THEN [g |-> removeHtmlElements(g), prevented |-> TRUE, print |-> FALSE]
    ELSE [g |-> g,
          prevented |-> (e.ctrlKey /\ e.key \in {"s", "p", "a"}),
          print |-> FALSE]

\* one keydown listener of disableBrowserFeatures:
\* the new ProtectionState, whether preventDefault ran, whether a timer was set
keydownHandler(e, g) ==
    IF e.ctrlKey /\ e.key = "u"
    THEN [g |-> removeHtmlElements(g), prevented |-> TRUE, print |-> FALSE]
    ELSE IF e.key = "F12"
    THEN [g |-> removeHtmlElements(g), prevented |-> TRUE, print |-> FALSE]
    ELSE IF e.ctrlKey /\ e.shiftKey /\ e.key = "I"
    THEN [g |-> removeHtmlElements(g), prevented |-> TRUE, print |-> FALSE]
    ELSE IF e.ctrlKey /\ e.shiftKey /\ e.key = "C"
    THEN [g |-> removeHtmlElements(g), prevented |-> TRUE, print |-> FALSE]
    ELSE IF e.ctrlKey /\ e.key = "s"
    THEN [g |-> g, prevented |-> TRUE, print |-> FALSE]
    ELSE [g |-> g,
          prevented |-> (e.ctrlKey /\ e.key = "a"),
          print |-> (e.ctrlKey /\ e.key = "p")]

\* the n listeners registered on the document run one after the other
RECURSIVE keydownAll(_, _, _)
keydownAll(n, e, acc) ==
    IF n = 0 THEN acc
    ELSE LET r == keydownHandler(e, acc.g)
         IN keydownAll(n - 1, e,
                [g |-> r.g,
                 prevented |-> acc.prevented \/ r.prevented,
                 print |-> acc.print + (IF r.print THEN 1 ELSE 0)])

keyupHandler(e, g) ==
    IF e.key = "PrintScreen"
    THEN [g |-> removeHtmlElements(g), prevented |-> TRUE]
    ELSE [g |-> g, prevented |-> FALSE]

(* ---------------- console override ---------------- *)
ConsoleMethods == {"log", "warn", "error", "info", "debug", "clear", "dir",
    "dirxml", "table", "trace", "group", "groupCollapsed", "groupEnd", "time",
    "timeEnd", "timeLog", "profile", "profileEnd", "count", "countReset",
    "assert", "markTimeline", "timeline", "timelineEnd", "timeStamp"}
\* properties copied from the original console; they are no wiping functions
ConsoleCopied == {"memory", "firebug", "exception"}

\* the properties scripts of the page are taken to call
CalledProperties == {"log", "clear", "timeStamp", "exception"}

consoleCall(m, g) == IF m \in ConsoleMethods THEN removeHtmlElements(g) ELSE g

(* ---------------- mutation observer ---------------- *)
\* variant: only SCRIPT elements count
suspiciousScriptOnly(node) == nodeType(node) = 1 /\ tagName(node) = "SCRIPT"

suspicious(node) == nodeType(node) = 1 /\ (tagName(node) = "SCRIPT" \/ tagName(node) = "IFRAME")

\* callback of one observer for a childList record with the added node
observerCallback(node, g) == IF suspicious(node) THEN removeHtmlElements(g) ELSE g

(* ---------------- timers and history ---------------- *)
NoTimers == [restore |-> <<>>, rearm |-> <<>>, print |-> <<>>]
\* setTimeout(callback k, d): queued behind the pending timeouts of k
setTimeout(t, k, d) == [t EXCEPT ![k] = Append(@, d)]
\* the oldest pending timeout of callback k has fired
fired(t, k) == [t EXCEPT ![k] = Tail(@)]
RECURSIVE setTimeouts(_, _, _, _)
setTimeouts(t, k, d, n) == IF n = 0 THEN t ELSE setTimeouts(setTimeout(t, k, d), k, d, n - 1)


\* writes the ProtectionState g2 reached from the document `before` and keeps
\* the history of wipes and restorations
Commit(before, g2, restored) ==
    /\ isProtected' = g2.isProtected
    /\ originalContent' = g2.originalContent
    /\ dom' = g2.dom
    /\ nWipes' = IF ~isProtected /\ g2.isProtected THEN nWipes + 1 ELSE nWipes
    /\ lastWiped' = IF ~isProtected /\ g2.isProtected THEN getInnerHTML(before) ELSE lastWiped
    /\ restoredCount' = IF ~isProtected /\ g2.isProtected THEN 0
                        ELSE IF restored THEN restoredCount + 1 ELSE restoredCount

(* ---------------- initialisation of the protection ---------------- *)
\* variant: detectDevTools cancels the polling loops started before
ArmSinglePoller ==
    LET r == checkDevTools([open |-> FALSE], G, dims, consoleCheck)
        g2 == [r.g EXCEPT !.dom = Append(r.g.dom, Overlay)]
    IN /\ keydownListeners' = keydownListeners + 1
       /\ pollers' = <<[open |-> r.open, period |-> PollPeriod]>>
       /\ consoleOverridden' = TRUE
       /\ observers' = observers + 1
       /\ debuggerIntervals' = debuggerIntervals + 1
       /\ Commit(dom, g2, FALSE)

\* disableBrowserFeatures(); detectDevTools(); disableViewSource();
\* addProtectionOverlay()  -- run by initProtection and by the re-arm timeout
Arm ==
    LET r == checkDevTools([open |-> FALSE], G, dims, consoleCheck)
        g2 == [r.g EXCEPT !.dom = Append(r.g.dom, Overlay)]
    IN /\ keydownListeners' = keydownListeners + 1
       /\ pollers' = Append(pollers, [open |-> r.open, period |-> PollPeriod])
       /\ consoleOverridden' = TRUE
       /\ observers' = observers + 1
       /\ debuggerIntervals' = debuggerIntervals + 1
       /\ Commit(dom, g2, FALSE)

initProtection ==
    /\ ~started
    /\ started' = TRUE
    /\ Arm
    /\ UNCHANGED <<loaderVars, menuVars, navVars, exportVars, liteVars, nInserted, dims, consoleCheck, timers>>

(* ---------------- timer callbacks ---------------- *)
\* setInterval(checkDevTools, 100) of the i-th detectDevTools call fires
Poll(i) ==
    /\ LET r == checkDevTools(pollers[i], G, dims, consoleCheck)
       IN /\ pollers' = [pollers EXCEPT ![i].open = r.open]
          /\ timers' = IF r.sched THEN setTimeout(timers, "restore", RestoreDelay)
                       ELSE timers
          /\ Commit(dom, r.g, FALSE)
    /\ UNCHANGED <<loaderVars, menuVars, navVars, exportVars, liteVars, nInserted, dims, consoleCheck, started, keydownListeners, consoleOverridden,
                   observers, debuggerIntervals>>

\* setTimeout(restoreOriginalContent, 500) fires
RestoreTimer ==
    /\ timers.restore # <<>>
    /\ LET acted == restoreGuard(G)
       IN /\ timers' = IF acted THEN setTimeout(fired(timers, "restore"), "rearm", RearmDelay)
                       ELSE fired(timers, "restore")
          /\ Commit(dom, restoreOriginalContent(G), acted)
    /\ UNCHANGED <<loaderVars, menuVars, navVars, exportVars, liteVars, nInserted, dims, consoleCheck, started, pollers, keydownListeners,
                   consoleOverridden, observers, debuggerIntervals>>

\* the re-initialisation 100ms after a restoration
RearmTimer ==
    /\ timers.rearm # <<>>
    /\ timers' = fired(timers, "rearm")
    /\ Arm
    /\ UNCHANGED <<loaderVars, menuVars, navVars, exportVars, liteVars, nInserted, dims, consoleCheck, started>>

\* setTimeout(removeHtmlElements, 1000) of Ctrl+P fires
PrintTimer ==
    /\ timers.print # <<>>
    /\ timers' = fired(timers, "print")
    /\ Commit(dom, removeHtmlElements(G), FALSE)
    /\ UNCHANGED <<loaderVars, menuVars, navVars, exportVars, liteVars, nInserted, dims, consoleCheck, started, pollers, keydownListeners,
                   consoleOverridden, observers, debuggerIntervals>>

(* ---------------- the environment ---------------- *)
\* window chrome deltas the browser reports
DimSet == {<<0, 0>>, <<160, 160>>, <<161, 0>>, <<0, 161>>, <<200, 250>>}

WipeBudget == nWipes < MaxWipes

\* the window is resized, or a panel is docked or undocked
Resize(d) ==
    /\ started
    /\ d # dims
    /\ (widthThreshold(d) \/ heightThreshold(d)) =>
            (WipeBudget /\ Len(timers.restore) <= MaxRestore)
    /\ dims' = d
    /\ UNCHANGED <<loaderVars, menuVars, navVars, exportVars, liteVars, originalContent, isProtected, dom, consoleCheck, started, pollers,
                   keydownListeners, consoleOverridden, observers, debuggerIntervals,
                   timers, nWipes, lastWiped, restoredCount, nInserted>>

\* a keydown event is dispatched to the document
KeyDown(e) ==
    /\ started
    /\ LET r == keydownAll(keydownListeners, e,
                           [g |-> G, prevented |-> FALSE, print |-> 0])
       IN /\ r.g # G => WipeBudget
          /\ r.print > 0 => (WipeBudget /\ Len(timers.print) < MaxPrint)
          /\ timers' = setTimeouts(timers, "print", PrintDelay, r.print)
          /\ Commit(dom, r.g, FALSE)
    /\ UNCHANGED <<loaderVars, menuVars, navVars, exportVars, liteVars, nInserted, dims, consoleCheck, started, pollers, keydownListeners,
                   consoleOverridden, observers, debuggerIntervals>>

\* a keyup event is dispatched to the document
RECURSIVE keyupAll(_, _, _)
keyupAll(n, e, acc) ==
    IF n = 0 THEN acc
    ELSE LET r == keyupHandler(e, acc.g)
         IN keyupAll(n - 1, e, [g |-> r.g, prevented |-> acc.prevented \/ r.prevented])

KeyUp(e) ==
    /\ started
    /\ LET r == keyupAll(keydownListeners, e, [g |-> G, prevented |-> FALSE])
       IN /\ r.g # G => WipeBudget
          /\ Commit(dom, r.g, FALSE)
    /\ UNCHANGED <<loaderVars, menuVars, navVars, exportVars, liteVars, nInserted, dims, consoleCheck, started, pollers, keydownListeners,
                   consoleOverridden, observers, debuggerIntervals, timers>>

\* some script calls window.console.m(...)
ConsoleCall(m) ==
    /\ started /\ consoleOverridden
    /\ LET g2 == consoleCall(m, G)
       IN /\ g2 # G => WipeBudget
          /\ Commit(dom, g2, FALSE)
    /\ UNCHANGED <<loaderVars, menuVars, navVars, exportVars, liteVars, nInserted, dims, consoleCheck, started, pollers, keydownListeners,
                   consoleOverridden, observers, debuggerIntervals, timers>>

\* a node is inserted under the document element; the observers' callbacks
\* run at the next microtask checkpoint
RECURSIVE observeAll(_, _, _)
observeAll(n, node, g) ==
    IF n = 0 THEN g ELSE observeAll(n - 1, node, observerCallback(node, g))

InsertNode(node) ==
    /\ started
    /\ nInserted < MaxInserted
    /\ nInserted' = nInserted + 1
    /\ LET g1 == [G EXCEPT !.dom = Append(dom, node)]
           g2 == observeAll(observers, node, g1)
       IN /\ g2 # g1 => WipeBudget
          /\ Commit(g1.dom, g2, FALSE)
    /\ UNCHANGED <<loaderVars, menuVars, navVars, exportVars, liteVars, dims, consoleCheck, started, pollers, keydownListeners,
                   consoleOverridden, observers, debuggerIntervals, timers>>

(* ---------------- the lighter variant (resume.js) ---------------- *)
ResumeContent == "resume"
Warning == "Developer tools detected. Access denied."

\* window.screen.width values and the other inputs of the classification
ScreenWidths == {768, 1024, 1025}

ScreenHeights == {768, 1080}

isMobileDevice(hasTouch, mobileUserAgent, screenWidth, screenHeight, hasOrientationAPI) ==
    LET smallScreen == screenWidth <= 768 \/ screenHeight <= 768
    IN hasTouch \/ mobileUserAgent \/ (smallScreen /\ hasOrientationAPI)

isTabletLandscape(hasTouch, screenWidth) ==
    screenWidth > 768 /\ screenWidth <= 1024 /\ hasTouch

\* the desktop-only branch: if (!isMobile && !isTablet)
installsDesktopRestrictions(mobile, tablet) == ~mobile /\ ~tablet

\* a page that blocks the context menu in the desktop branch only
blocksContextMenuDesktopOnly(mobile, tablet) == ~mobile /\ ~tablet
\* a contextmenu listener: in the desktop branch, or in the else branch if (isTablet)
blocksContextMenu(mobile, tablet) ==
    IF ~mobile /\ ~tablet THEN TRUE ELSE tablet

showWarning(b) == Warning

widthThresholdLite == 200
heightThresholdLite == 200
normalChromeHeight == 100
normalChromeWidth == 20

\* variant: non-strict comparison
suspiciousWidthInclusive(d) == d[1] >= normalChromeWidth + widthThresholdLite

suspiciousWidth(d) == d[1] > normalChromeWidth + widthThresholdLite
suspiciousHeight(d) == d[2] > normalChromeHeight + heightThresholdLite

\* variant: the content comes back when the deltas are unsuspicious
liteCheckDevToolsRestoring(b, d) ==
    IF suspiciousWidth(d) \/ suspiciousHeight(d) THEN showWarning(b) ELSE ResumeContent

\* checkDevTools of resume.js: the body after one poll
liteCheckDevTools(b, d) ==
    IF suspiciousWidth(d) \/ suspiciousHeight(d) THEN showWarning(b) ELSE b

LiteDimSet == {<<0, 0>>, <<200, 250>>, <<220, 0>>, <<0, 300>>, <<220, 300>>,
               <<221, 0>>, <<0, 301>>, <<221, 300>>, <<220, 301>>, <<300, 0>>}

\* window 'load': setTimeout(..., 2000)
LiteLoad ==
    /\ stage = "loading"
    /\ stage' = "delay"
    /\ UNCHANGED <<loaderVars, menuVars, navVars, exportVars, guardVars, isMobile, isTablet, desktopRestrictions,
                   contextMenuBlocked, body, liteDims>>

\* the 2000ms timeout: devToolsCheckInterval = setInterval(checkDevTools, 1000)
LiteStartInterval ==
    /\ stage = "delay"
    /\ stage' = "polling"
    /\ UNCHANGED <<loaderVars, menuVars, navVars, exportVars, guardVars, isMobile, isTablet, desktopRestrictions,
                   contextMenuBlocked, body, liteDims>>

\* the 1000ms interval fires
LitePoll ==
    /\ stage = "polling"
    /\ body' = liteCheckDevTools(body, liteDims)
    /\ UNCHANGED <<loaderVars, menuVars, navVars, exportVars, guardVars, isMobile, isTablet, desktopRestrictions,
                   contextMenuBlocked, liteDims, stage>>

LiteResize(d) ==
    /\ d # liteDims
    /\ liteDims' = d
    /\ UNCHANGED <<loaderVars, menuVars, navVars, exportVars, guardVars, isMobile, isTablet, desktopRestrictions,
                   contextMenuBlocked, body, stage>>

(* ---------------- Resume Exporter: downloadResume, resume.js ---------------- *)
\* element.querySelectorAll('.company, .job-title, .degree, .grade, .award-title'):
\* one element of each class stands for the elements of that class
GradientClasses == {"company", "job-title", "degree", "grade", "award-title"}
\* the properties kept in originalStyles[index]
SnapshotProps == {"background", "webkitBackgroundClip", "webkitTextFillColor",
                  "backgroundClip"}
\* the inline properties of a gradient element that downloadResume assigns
ElementProps == SnapshotProps \cup {"textShadow", "color", "fontWeight", "fontSize",
                                    "lineHeight"}
\* the properties kept in originalContainerStyles
ContainerProps == {"borderRadius", "border", "overflow"}

\* an inline value a page author may have given the property before the export
InlineValue(p) ==
    CASE p = "background" -> "linear-gradient(45deg, #667eea, #764ba2)"
      [] p = "webkitBackgroundClip" -> "text"
      [] p = "webkitTextFillColor" -> "transparent"
      [] p = "backgroundClip" -> "text"
      [] p = "textShadow" -> "1px 1px 2px gray"
      [] p = "color" -> "black"
      [] p = "fontWeight" -> "500"
      [] p = "fontSize" -> "1.1em"
      [] p = "lineHeight" -> "1.5"
      [] p = "borderRadius" -> "15px"
      [] p = "border" -> "1px solid #ddd"
      [] p = "overflow" -> "hidden"

\* the inline styles of an element on which exactly the properties of inl are set
InlineStyle(props, inl) == [p \in props |-> IF p \in inl THEN InlineValue(p) ELSE ""]
InlineProfiles == {{}, ElementProps} \cup {{p} : p \in ElementProps}
ContainerProfiles == {{}, ContainerProps}

\* originalContainerStyles = {borderRadius, border, overflow}
snapshotContainer(st) == [p \in ContainerProps |-> st[p]]

\* element.style.borderRadius = '0'; border = 'none'; overflow = 'visible'
overrideContainer(st) ==
    [st EXCEPT !["borderRadius"] = "0", !["border"] = "none", !["overflow"] = "visible"]

\* originalStyles[index] = {background, webkitBackgroundClip, ...}
snapshotElement(st) == [p \in SnapshotProps |-> st[p]]

\* the class-specific colours of the forEach body
classOverride(className, st) ==
    CASE className = "company" ->
            [st EXCEPT !["color"] = "#3498db", !["fontWeight"] = "600",
                       !["fontSize"] = "1.2em"]
      [] className = "job-title" ->
            [st EXCEPT !["color"] = "#704da6", !["fontWeight"] = "700",
                       !["fontSize"] = "1em"]
      [] className = "degree" ->
            [st EXCEPT !["color"] = "#2c3e50", !["fontSize"] = "0.8em",
                       !["lineHeight"] = "1.2"]
      [] className = "grade" ->
            [st EXCEPT !["color"] = "#27ae60", !["fontWeight"] = "600"]
      [] className = "award-title" ->
            [st EXCEPT !["color"] = "#e74c3c", !["fontWeight"] = "700"]
      [] OTHER -> st

\* the forEach body after the snapshot: flatten the gradient, then the class colour
overrideElement(className, st) ==
    classOverride(className,
        [st EXCEPT !["background"] = "none", !["webkitBackgroundClip"] = "unset",
                   !["webkitTextFillColor"] = "unset", !["backgroundClip"] = "unset",
                   !["textShadow"] = "none"])

\* a restore that forgets one snapshot property
restoreElementNoClip(st, snap) ==
    [st EXCEPT !["background"] = snap["background"],
               !["webkitBackgroundClip"] = snap["webkitBackgroundClip"],
               !["webkitTextFillColor"] = snap["webkitTextFillColor"],
               !["color"] = "", !["fontWeight"] = "", !["textShadow"] = ""]
\* the forEach body of the then callback
restoreElement(st, snap) ==
    [st EXCEPT !["background"] = snap["background"],
               !["webkitBackgroundClip"] = snap["webkitBackgroundClip"],
               !["webkitTextFillColor"] = snap["webkitTextFillColor"],
               !["backgroundClip"] = snap["backgroundClip"],
               !["color"] = "", !["fontWeight"] = "", !["textShadow"] = ""]

\* the forEach body of the catch callback
restoreElementOnError(st, snap) ==
    [st EXCEPT !["background"] = snap["background"],
               !["webkitBackgroundClip"] = snap["webkitBackgroundClip"],
               !["webkitTextFillColor"] = snap["webkitTextFillColor"],
               !["backgroundClip"] = snap["backgroundClip"],
               !["color"] = "", !["fontWeight"] = "", !["textShadow"] = ""]

\* the container restore of the then callback
restoreContainer(st, snap) ==
    [st EXCEPT !["borderRadius"] = snap["borderRadius"], !["border"] = snap["border"],
               !["overflow"] = snap["overflow"]]

\* a failure path that leaves the container's overflow overridden
restoreContainerOnErrorNoOverflow(st, snap) ==
    [st EXCEPT !["borderRadius"] = snap["borderRadius"], !["border"] = snap["border"]]
\* the container restore of the catch callback
restoreContainerOnError(st, snap) ==
    [st EXCEPT !["borderRadius"] = snap["borderRadius"], !["border"] = snap["border"],
               !["overflow"] = snap["overflow"]]

\* the inline styles downloadResume reads and writes
Styles == [elementStyle |-> elementStyle, containerStyle |-> containerStyle,
           btnDisplay |-> btnDisplay]

\* .then(() => {...}): restore and show the download button again
thenCallback(s, closure) ==
    [elementStyle |-> [c \in GradientClasses |->
                          restoreElement(s.elementStyle[c], closure.originalStyles[c])],
     containerStyle |-> restoreContainer(s.containerStyle,
                                         closure.originalContainerStyles),
     btnDisplay |-> "flex"]

\* .catch(error => {...}): console.error, then the same restore
catchCallback(s, closure) ==
    [elementStyle |-> [c \in GradientClasses |->
                          restoreElementOnError(s.elementStyle[c],
                                                closure.originalStyles[c])],
     containerStyle |-> restoreContainerOnError(s.containerStyle,
                                                closure.originalContainerStyles),
     btnDisplay |-> "flex"]

\* what one invocation keeps for its callbacks; pre is the history of the inline
\* styles at the moment of the invocation
Closure(s) ==
    [originalStyles |-> [c \in GradientClasses |-> snapshotElement(s.elementStyle[c])],
     originalContainerStyles |-> snapshotContainer(s.containerStyle),
     pre |-> s]

RemoveAt(q, i) == [j \in 1..(Len(q) - 1) |-> IF j < i THEN q[j] ELSE q[j + 1]]

\* downloadResume(): hide the button, snapshot, override, call html2pdf(); where the
\* library is not defined the call throws and no callback is ever registered
downloadResume ==
    /\ nExports < MaxExports
    /\ nExports' = nExports + 1
    /\ btnDisplay' = "none"
    /\ containerStyle' = overrideContainer(containerStyle)
    /\ elementStyle' = [c \in GradientClasses |-> overrideElement(c, elementStyle[c])]
    /\ IF html2pdfLoaded
          THEN /\ exports' = Append(exports, Closure(Styles))
               /\ lastOutcome' = lastOutcome
          ELSE /\ exports' = exports
               /\ lastOutcome' = "threw"
    /\ UNCHANGED <<loaderVars, menuVars, navVars, guardVars, liteVars, html2pdfLoaded>>

SetStyles(s) ==
    /\ elementStyle' = s.elementStyle
    /\ containerStyle' = s.containerStyle
    /\ btnDisplay' = s.btnDisplay

\* the promise of invocation i is fulfilled
ExportSucceeded(i) ==
    /\ SetStyles(thenCallback(Styles, exports[i]))
    /\ exports' = RemoveAt(exports, i)
    /\ lastOutcome' = "success"
    /\ UNCHANGED <<loaderVars, menuVars, navVars, guardVars, liteVars, html2pdfLoaded, nExports>>

\* the promise of invocation i is rejected
ExportFailed(i) ==
    /\ SetStyles(catchCallback(Styles, exports[i]))
    /\ exports' = RemoveAt(exports, i)
    /\ lastOutcome' = "failure"
    /\ UNCHANGED <<loaderVars, menuVars, navVars, guardVars, liteVars, html2pdfLoaded, nExports>>

\* the resume page before any export, with the given inline styles
ExportIdle(inl, cinl, display, loaded) ==
    /\ elementStyle = [c \in GradientClasses |-> InlineStyle(ElementProps, inl)]
    /\ containerStyle = InlineStyle(ContainerProps, cinl)
    /\ btnDisplay = display
    /\ html2pdfLoaded = loaded
    /\ exports = <<>>
    /\ nExports = 0
    /\ lastOutcome = "none"

(* ---------------- Navigation Builder: class Navigation ---------------- *)
\* window.location.pathname is "/" followed by its segments joined with "/":
\* "/" is <<"">>, "/travel/" is <<"travel", "">>, "/gpt/gpt-index.html" is
\* <<"gpt", "gpt-index.html">>. A relative URL is the sequence of its segments,
\* a directory prefix such as '../../' the sequence of its steps.
Segments == {"", "travel", "pages", "tech", "gpt", "index.html", "tech-index.html",
             "gpt-index.html", "x.html"}
Paths == UNION {[1..n -> Segments] : n \in 1..MaxDepth}

\* path.includes('/d1/.../dm/'): the directory names in a row, none of them last
includes(path, dirs) ==
    \E i \in 1..Len(path) :
        /\ i + Len(dirs) <= Len(path)
        /\ \A k \in 1..Len(dirs) : path[i + k - 1] = dirs[k]

\* path.endsWith('index.html')
endsWithIndexHtml(path) ==
    path[Len(path)] \in {"index.html", "tech-index.html", "gpt-index.html"}

\* a section test that tries '/gpt/' before '/tech/'
getCurrentPageGptFirst(path) ==
    IF includes(path, <<"travel", "pages">>) THEN "travel"
    ELSE IF includes(path, <<"travel">>) THEN "travel"
    ELSE IF includes(path, <<"gpt">>) THEN "gpt"
    ELSE IF includes(path, <<"tech">>) THEN "tech"
    ELSE "portfolio"
getCurrentPage(path) ==
    IF includes(path, <<"travel", "pages">>) THEN "travel"
    ELSE IF includes(path, <<"travel">>) THEN "travel"
    ELSE IF includes(path, <<"tech">>) THEN "tech"
    ELSE IF includes(path, <<"gpt">>) THEN "gpt"
    ELSE IF path = <<"">> \/ endsWithIndexHtml(path) THEN "portfolio"
    ELSE "portfolio"

\* a base path that tests '/gpt/' before '/tech/'
getBasePathGptFirst(path) ==
    IF includes(path, <<"travel", "pages">>) THEN <<"..", "..", "..">>
    ELSE IF includes(path, <<"travel">>) THEN <<"..", "..">>
    ELSE IF includes(path, <<"gpt">>) THEN <<"..">>
    ELSE IF includes(path, <<"tech">>) THEN <<"..", "..">>
    ELSE <<".">>
getBasePath(path) ==
    IF includes(path, <<"travel", "pages">>) THEN <<"..", "..", "..">>
    ELSE IF includes(path, <<"travel">>) THEN <<"..", "..">>
    ELSE IF includes(path, <<"tech">>) THEN <<"..", "..">>
    ELSE IF includes(path, <<"gpt">>) THEN <<"..">>
    ELSE <<".">>

YouTubeUrl == <<"https:", "", "www.youtube.com", "@i-shubham-mallick">>

\* an item list whose travel link always takes the base path
getNavItemsNoSpecialCase(path) ==
    LET basePath == getBasePath(path)
    IN << [id |-> "portfolio", url |-> basePath \o <<"index.html">>,
           external |-> FALSE, special |-> FALSE],
          [id |-> "travel", url |-> basePath \o <<"travel", "index.html">>,
           external |-> FALSE, special |-> FALSE],
          [id |-> "youtube", url |-> YouTubeUrl, external |-> TRUE, special |-> FALSE],
          [id |-> "tech", url |-> basePath \o <<"tech", "tech-index.html">>,
           external |-> FALSE, special |-> FALSE],
          [id |-> "gpt", url |-> basePath \o <<"gpt", "gpt-index.html">>,
           external |-> FALSE, special |-> TRUE] >>
\* getNavItems(); a property an item literal leaves out reads as FALSE
getNavItems(path) ==
    LET basePath == getBasePath(path)
        travelUrl == IF includes(path, <<"travel", "pages">>)
                        THEN <<"..", "index.html">>
                        ELSE basePath \o <<"travel", "index.html">>
    IN << [id |-> "portfolio", url |-> basePath \o <<"index.html">>,
           external |-> FALSE, special |-> FALSE],
          [id |-> "travel", url |-> travelUrl, external |-> FALSE, special |-> FALSE],
          [id |-> "youtube", url |-> YouTubeUrl, external |-> TRUE, special |-> FALSE],
          [id |-> "tech", url |-> basePath \o <<"tech", "tech-index.html">>,
           external |-> FALSE, special |-> FALSE],
          [id |-> "gpt", url |-> basePath \o <<"gpt", "gpt-index.html">>,
           external |-> FALSE, special |-> TRUE] >>

getSocialLinks ==
    << [url |-> <<"https:", "", "www.linkedin.com", "in", "i-shubham", "">>,
        title |-> "LinkedIn"],
       [url |-> YouTubeUrl, title |-> "YouTube"],
       [url |-> <<"https:", "", "www.instagram.com", "i.shubham.01", "">>,
        title |-> "Instagram"],
       [url |-> <<"#">>, title |-> "Twitter"] >>

\* a rendering that marks the portfolio item whatever the current page is
navItemHTMLPortfolioActive(item, page) ==
    [classes |-> {"nav-link"} \cup (IF item.id = "portfolio" THEN {"active"} ELSE {})
                    \cup (IF item.special THEN {"gpt-nav-item"} ELSE {}),
     href |-> item.url,
     target |-> IF item.external THEN "_blank" ELSE "",
     children |-> IF item.special THEN <<"span.gpt-icon", "span.gpt-text">>
                                  ELSE <<"i">>]
\* the <a> element of one item in the forEach body of createNavHTML
navItemHTML(item, page) ==
    [classes |-> {"nav-link"} \cup (IF item.id = page THEN {"active"} ELSE {})
                    \cup (IF item.special THEN {"gpt-nav-item"} ELSE {}),
     href |-> item.url,
     target |-> IF item.external THEN "_blank" ELSE "",
     children |-> IF item.special THEN <<"span.gpt-icon", "span.gpt-text">>
                                  ELSE <<"i">>]

\* the <a> element of one social link
socialHTML(link) ==
    [href |-> link.url, target |-> IF link.url # <<"#">> THEN "_blank" ELSE "",
     title |-> link.title]

\* createNavHTML(): the anchors of the returned markup
createNavHTML(path, page) ==
    LET navItems == getNavItems(path)
        socialLinks == getSocialLinks
    IN [navItems |-> [i \in 1..Len(navItems) |-> navItemHTML(navItems[i], page)],
        social |-> [i \in 1..Len(socialLinks) |-> socialHTML(socialLinks[i])]]

\* a placeholder nothing was rendered into
EmptyNav == [navItems |-> <<>>, social |-> <<>>]

\* a style step without the marker test
addStylesUnguarded(n) == n + 1
\* addStyles(): n elements match '#nav-styles' before, the result match after
addStyles(n) == IF n = 0 THEN n + 1 ELSE n

\* new Navigation(): getCurrentPage, then init() with addStyles, the placeholder
\* lookup or creation, and the innerHTML assignment
NewNavigation ==
    /\ nNavigations < MaxNavigations
    /\ nNavigations' = nNavigations + 1
    /\ currentPage' = getCurrentPage(pathname)
    /\ navStyles' = addStyles(navStyles)
    /\ navPlaceholders' = IF navPlaceholders = 0 THEN 1 ELSE navPlaceholders
    /\ navContainer' = createNavHTML(pathname, currentPage')
    /\ UNCHANGED <<loaderVars, menuVars, guardVars, liteVars, exportVars, pathname>>

\* the URL a relative reference names on a page at path: the steps are applied
\* to the page's directory, '..' at the root stays at the root
RECURSIVE ResolveFrom(_, _)
ResolveFrom(dir, url) ==
    IF url = <<>> THEN dir
    ELSE LET step == Head(url)
         IN ResolveFrom(IF step = "." THEN dir
                        ELSE IF step = ".." THEN SubSeq(dir, 1, Len(dir) - 1)
                        ELSE Append(dir, step),
                        Tail(url))
Resolve(path, url) == ResolveFrom(SubSeq(path, 1, Len(path) - 1), url)

\* a document of the site before DOMContentLoaded
NavLoaded(path, placeholders) ==
    /\ pathname = path
    /\ currentPage = "none"
    /\ navStyles = 0
    /\ navPlaceholders = placeholders
    /\ navContainer = EmptyNav
    /\ nNavigations = 0

\* the visitor follows the i-th internal item of the rendered navigation: the
\* browser loads the document the href names
FollowLink(i) ==
    /\ navContainer.navItems[i].target = ""
    /\ \E placeholders \in {0, 1} :
          /\ pathname' = Resolve(pathname, navContainer.navItems[i].href)
          /\ currentPage' = "none"
          /\ navStyles' = 0
          /\ navPlaceholders' = placeholders
          /\ navContainer' = EmptyNav
          /\ nNavigations' = 0
    /\ UNCHANGED <<loaderVars, menuVars, guardVars, liteVars, exportVars>>

(* ---------------- Page Loader: include.js ---------------- *)
\* A string of include.js is the sequence of its pieces: "/tech/tech-index.html"
\* is <<"/", "tech", "/", "tech", "-", "index.html">>, so that endsWith compares
\* the characters and not the path segments.
LoaderPaths == {<<"/">>, <<"/", "index.html">>, <<"/", "travel", "/", "index.html">>,
                <<"/", "tech", "/", "tech", "-", "index.html">>}
\* getAttribute('href') of a link without the attribute, or with an empty one
NoHref == <<>>
\* the .nav-link elements a navbar.html may hold, by href, with the 'active'
\* class each carries in the file
NavbarFiles ==
    LET hrefSets == {{}, {<<"/", "index.html">>, <<"about.html">>},
                     {<<"index.html">>, <<"tech", "-", "index.html">>},
                     {<<"/", "index.html">>, <<"index.html">>},
                     {NoHref, <<"#">>},
                     {<<"/", "index.html">>, <<"/", "travel", "/", "index.html">>}}
    IN UNION {{[h \in hs |-> FALSE], [h \in hs |-> TRUE]} : hs \in hrefSets}

\* the three includeHTML calls of the DOMContentLoaded listener
Fragments == {"header", "navbar", "footer"}
\* three fragments that share one container
ContainerIdShared(f) == "header-include"
ContainerId(f) == CASE f = "header" -> "header-include"
                    [] f = "navbar" -> "navbar-include"
                    [] f = "footer" -> "footer-include"
File(f) == CASE f = "header" -> "header.html"
             [] f = "navbar" -> "navbar.html"
             [] f = "footer" -> "footer.html"
HasCallback(f) == f = "navbar"

\* innerHTML of an empty container
EmptyHTML == <<>>
\* response.text(): the file's text for 200, the server's error page otherwise
Body(file, status) ==
    IF status = "200" THEN <<"text of", file>> ELSE <<"error page", status>>

\* s.endsWith(suffix)
endsWith(s, suffix) ==
    /\ Len(suffix) <= Len(s)
    /\ SubSeq(s, Len(s) - Len(suffix) + 1, Len(s)) = suffix

\* setActiveNav(): the 'active' class of every #navbar-include .nav-link afterwards
setActiveNav(locPath, links) ==
    LET path == IF locPath = <<"/">> \/ endsWith(locPath, <<"/", "index.html">>)
                   THEN <<"/", "index.html">> ELSE locPath
    IN [href \in DOMAIN links |->
           href # NoHref /\ (endsWith(path, href) \/ path = href)]

\* the .nav-link elements under #navbar-include once its innerHTML is data
LinksOf(data, navbar) == IF data = Body("navbar.html", "200") THEN navbar
                         ELSE [h \in {} |-> FALSE]

\* the containers, the links and the calls of the callback
LoaderDom == [containers |-> containers, navLinks |-> navLinks,
              callbackCalls |-> callbackCalls]

\* a data handler that runs the callback before it assigns innerHTML
onDataCallbackFirst(d, f, data, locPath, navbar) ==
    LET called == IF HasCallback(f)
                     THEN [d EXCEPT !.navLinks = setActiveNav(locPath, @),
                                    !.callbackCalls = @ + 1]
                     ELSE d
    IN [called EXCEPT !.containers[ContainerId(f)] = data,
                      !.navLinks = IF f = "navbar" THEN LinksOf(data, navbar) ELSE @]
\* .then(data => {...}): assign innerHTML, then call the callback if there is one
onData(d, f, data, locPath, navbar) ==
    LET injected == [d EXCEPT !.containers[ContainerId(f)] = data,
                              !.navLinks = IF f = "navbar" THEN LinksOf(data, navbar)
                                                          ELSE @]
    IN IF HasCallback(f)
          THEN [injected EXCEPT !.navLinks = setActiveNav(locPath, @),
                                !.callbackCalls = @ + 1]
          ELSE injected

\* a rejection that issues the request again
onRejectedRetry(fetch) == [fetch EXCEPT !.stage = "fetching", !.requests = @ + 1]
\* the fetch promise is rejected: the chain has no rejection handler
onRejected(fetch) == [fetch EXCEPT !.stage = "rejected"]

\* the DOMContentLoaded listener: three includeHTML calls, one fetch each
DOMContentLoaded ==
    /\ \A f \in Fragments : fetches[f].stage = "idle"
    /\ fetches' = [f \in Fragments |-> [stage |-> "fetching", status |-> "",
                                        requests |-> fetches[f].requests + 1]]
    /\ UNCHANGED <<guardVars, liteVars, exportVars, navVars, menuVars, loaderPath,
                   navbarFile, containers, navLinks, callbackCalls>>

\* fetch(file) is fulfilled with a response of this status; response.text() is
\* still being read
FetchFulfilled(f, status) ==
    /\ fetches[f].stage = "fetching"
    /\ fetches' = [fetches EXCEPT ![f].stage = "reading", ![f].status = status]
    /\ UNCHANGED <<guardVars, liteVars, exportVars, navVars, menuVars, loaderPath,
                   navbarFile, containers, navLinks, callbackCalls>>

\* fetch(file) is rejected (network error)
FetchRejected(f) ==
    /\ fetches[f].stage = "fetching"
    /\ fetches' = [fetches EXCEPT ![f] = onRejected(@)]
    /\ UNCHANGED <<guardVars, liteVars, exportVars, navVars, menuVars, loaderPath,
                   navbarFile, containers, navLinks, callbackCalls>>

\* response.text() is fulfilled: the data handler runs
TextFulfilled(f) ==
    /\ fetches[f].stage = "reading"
    /\ LET d == onData(LoaderDom, f, Body(File(f), fetches[f].status), loaderPath,
                       navbarFile)
       IN /\ containers' = d.containers
          /\ navLinks' = d.navLinks
          /\ callbackCalls' = d.callbackCalls
    /\ fetches' = [fetches EXCEPT ![f].stage = "done"]
    /\ UNCHANGED <<guardVars, liteVars, exportVars, navVars, menuVars, loaderPath,
                   navbarFile>>

\* a page with the three empty containers before DOMContentLoaded
LoaderLoaded(locPath, navbar) ==
    /\ loaderPath = locPath
    /\ navbarFile = navbar
    /\ containers = [c \in {ContainerId(f) : f \in Fragments} |-> EmptyHTML]
    /\ navLinks = [h \in {} |-> FALSE]
    /\ callbackCalls = 0
    /\ fetches = [f \in Fragments |-> [stage |-> "idle", status |-> "", requests |-> 0]]

(* ---------------- mobile navigation: main.js ---------------- *)
\* classList.toggle(c)
toggle(classList, c) == IF c \in classList THEN classList \ {c} ELSE classList \cup {c}

\* the hashes of the .scrollto links and the ones select(this.hash) finds
Hashes == {"#about", "#resume", "#missing"}
ExistingTargets == {"#about", "#resume"}

MenuState == [bodyClasses |-> bodyClasses, toggleClasses |-> toggleClasses,
              scrolledTo |-> scrolledTo]

\* click on .mobile-nav-toggle
toggleClick(m) ==
    [m EXCEPT !.bodyClasses = toggle(@, "mobile-nav-active"),
              !.toggleClasses = toggle(toggle(@, "bi-list"), "bi-x")]

\* a .scrollto handler that closes the menu without touching the button
scrolltoClickBodyOnly(m, hash) ==
    IF hash \in ExistingTargets
       THEN [m EXCEPT !.bodyClasses = @ \ {"mobile-nav-active"}, !.scrolledTo = hash]
       ELSE m
\* click on a .scrollto link with this hash
scrolltoClick(m, hash) ==
    IF hash \in ExistingTargets
       THEN LET closed ==
                  IF "mobile-nav-active" \in m.bodyClasses
                     THEN [m EXCEPT !.bodyClasses = @ \ {"mobile-nav-active"},
                                    !.toggleClasses =
                                        toggle(toggle(@, "bi-list"), "bi-x")]
                     ELSE m
            IN [closed EXCEPT !.scrolledTo = hash]
       ELSE m

SetMenu(m) ==
    /\ bodyClasses' = m.bodyClasses
    /\ toggleClasses' = m.toggleClasses
    /\ scrolledTo' = m.scrolledTo

ToggleClick ==
    /\ SetMenu(toggleClick(MenuState))
    /\ UNCHANGED <<guardVars, liteVars, exportVars, navVars, loaderVars>>

ScrolltoClick(hash) ==
    /\ scrolltoClick(MenuState, hash) # MenuState
    /\ SetMenu(scrolltoClick(MenuState, hash))
    /\ UNCHANGED <<guardVars, liteVars, exportVars, navVars, loaderVars>>

\* the page as served: menu closed, nothing scrolled to
MenuClosed ==
    /\ bodyClasses = {}
    /\ toggleClasses = {"mobile-nav-toggle", "bi-list"}
    /\ scrolledTo = ""

(* ---------------- specification ---------------- *)
GuardLoaded ==
    /\ originalContent = Null
    /\ isProtected = FALSE
    /\ dom = <<PageContent>>
    /\ dims \in DimSet
    /\ consoleCheck \in BOOLEAN
    /\ started = FALSE
    /\ pollers = <<>>
    /\ keydownListeners = 0
    /\ consoleOverridden = FALSE
    /\ observers = 0
    /\ debuggerIntervals = 0
    /\ timers = NoTimers
    /\ nWipes = 0
    /\ lastWiped = Null
    /\ restoredCount = 0
    /\ nInserted = 0

\* resume.js evaluated on a device with the given inputs
LiteLoaded(hasTouch, mobileUserAgent, screenWidth, screenHeight, hasOrientationAPI) ==
    /\ isMobile = isMobileDevice(hasTouch, mobileUserAgent, screenWidth, screenHeight,
                                 hasOrientationAPI)
    /\ isTablet = isTabletLandscape(hasTouch, screenWidth)
    /\ desktopRestrictions = installsDesktopRestrictions(isMobile, isTablet)
    /\ contextMenuBlocked = blocksContextMenu(isMobile, isTablet)
    /\ body = ResumeContent
    /\ stage = "loading"

Init ==
    /\ GuardLoaded
    /\ LiteLoaded(FALSE, FALSE, 1025, 1080, FALSE)
    /\ liteDims = <<0, 0>>
    /\ ExportIdle({}, {}, "", TRUE)
    /\ NavLoaded(<<"index.html">>, 1)
    /\ LoaderLoaded(<<"/">>, [h \in {} |-> FALSE])
    /\ MenuClosed

Next ==
    \/ initProtection
    \/ \E i \in 1..Len(pollers) : Poll(i)
    \/ RestoreTimer
    \/ RearmTimer
    \/ PrintTimer
    \/ \E d \in DimSet : Resize(d)
    \/ \E e \in KeyEvents : KeyDown(e)
    \/ KeyUp(PrintScreen)
    \/ \E m \in CalledProperties : ConsoleCall(m)
    \/ \E node \in InsertableNodes : InsertNode(node)

Spec == Init /\ [][Next]_vars

\* timers and intervals that are pending do fire
Fairness ==
    /\ WF_vars(initProtection)
    /\ WF_vars(\E i \in 1..Len(pollers) : Poll(i))
    /\ WF_vars(RestoreTimer)
    /\ WF_vars(RearmTimer)
    /\ WF_vars(PrintTimer)

LiveSpec == Init /\ [][Next]_vars /\ Fairness

\* the resume page alone
LiteInit ==
    /\ GuardLoaded /\ dims = <<0, 0>> /\ consoleCheck = FALSE
    /\ \E hasTouch \in BOOLEAN, mobileUserAgent \in BOOLEAN,
          screenWidth \in ScreenWidths, screenHeight \in ScreenHeights,
          hasOrientationAPI \in BOOLEAN :
            LiteLoaded(hasTouch, mobileUserAgent, screenWidth, screenHeight,
                       hasOrientationAPI)
    /\ liteDims \in LiteDimSet
    /\ ExportIdle({}, {}, "", TRUE)
    /\ NavLoaded(<<"index.html">>, 1)
    /\ LoaderLoaded(<<"/">>, [h \in {} |-> FALSE])
    /\ MenuClosed

LiteNext ==
    \/ LiteLoad
    \/ LiteStartInterval
    \/ LitePoll
    \/ \E d \in LiteDimSet : LiteResize(d)

LiteSpec == LiteInit /\ [][LiteNext]_vars

LiteLiveSpec ==
    LiteInit /\ [][LiteNext]_vars
    /\ WF_vars(LiteLoad) /\ WF_vars(LiteStartInterval) /\ WF_vars(LitePoll)

\* the Resume Exporter alone
ExportInit ==
    /\ GuardLoaded /\ dims = <<0, 0>> /\ consoleCheck = FALSE
    /\ LiteLoaded(FALSE, FALSE, 1025, 1080, FALSE) /\ liteDims = <<0, 0>>
    /\ \E inl \in InlineProfiles, cinl \in ContainerProfiles,
          display \in {"", "inline-block"}, loaded \in BOOLEAN :
            ExportIdle(inl, cinl, display, loaded)
    /\ NavLoaded(<<"index.html">>, 1)
    /\ LoaderLoaded(<<"/">>, [h \in {} |-> FALSE])
    /\ MenuClosed

ExportNext ==
    \/ downloadResume
    \/ \E i \in 1..Len(exports) : ExportSucceeded(i)
    \/ \E i \in 1..Len(exports) : ExportFailed(i)

ExportSpec == ExportInit /\ [][ExportNext]_vars

\* the Navigation Builder alone
NavInit ==
    /\ GuardLoaded /\ dims = <<0, 0>> /\ consoleCheck = FALSE
    /\ LiteLoaded(FALSE, FALSE, 1025, 1080, FALSE) /\ liteDims = <<0, 0>>
    /\ ExportIdle({}, {}, "", TRUE)
    /\ \E path \in Paths, placeholders \in {0, 1} : NavLoaded(path, placeholders)
    /\ LoaderLoaded(<<"/">>, [h \in {} |-> FALSE])
    /\ MenuClosed

NavNext ==
    \/ NewNavigation
    \/ \E i \in 1..Len(navContainer.navItems) : FollowLink(i)

NavSpec == NavInit /\ [][NavNext]_vars

\* a page that runs include.js and main.js
PageInit ==
    /\ GuardLoaded /\ dims = <<0, 0>> /\ consoleCheck = FALSE
    /\ LiteLoaded(FALSE, FALSE, 1025, 1080, FALSE) /\ liteDims = <<0, 0>>
    /\ ExportIdle({}, {}, "", TRUE)
    /\ NavLoaded(<<"index.html">>, 1)
    /\ \E locPath \in LoaderPaths, navbar \in NavbarFiles : LoaderLoaded(locPath, navbar)
    /\ MenuClosed

PageNext ==
    \/ DOMContentLoaded
    \/ \E f \in Fragments, status \in {"200", "404"} : FetchFulfilled(f, status)
    \/ \E f \in Fragments : FetchRejected(f)
    \/ \E f \in Fragments : TextFulfilled(f)
    \/ ToggleClick
    \/ \E hash \in Hashes : ScrolltoClick(hash)

PageSpec == PageInit /\ [][PageNext]_vars

(* ======================= the claims ======================= *)
OpenByDimension == widthThreshold(dims) \/ heightThreshold(dims)
HeuristicClear == ~(OpenByDimension \/ consoleCheck)
Guarded == started /\ ~isProtected
Restoration == isProtected /\ ~isProtected'

\* C1: whenever isProtected is true the saved snapshot originalContent is
\* non-null, after any sequence of triggers, polls, timers and restorations.
C1_SnapshotNonNull == isProtected => originalContent # Null

\* a second wipe cycle: wiped again after a restoration
C1_Witness == isProtected /\ nWipes >= 2 /\ originalContent # Null

\* C2: the markup of the document right after a restoration equals the markup
\* M the document had when the guard went Guarded->Wiped.
C2_RoundTrip == [][Restoration => getInnerHTML(dom') = lastWiped]_vars

\* restored, after a node was inserted into the wiped document
C2_Witness ==
    /\ ~isProtected /\ restoredCount = 1 /\ nInserted = 1
    /\ getInnerHTML(dom) = lastWiped /\ Len(lastWiped) >= 2

\* C3 (as claimed): a restoration happens only while the dimension heuristic
\* does not indicate developer tools open.
C3_RestoreOnlyWhenClear == [][Restoration => ~OpenByDimension]_vars

\* C4 (as claimed): if the heuristic is clear from some point on, every Wiped
\* state is followed by a Guarded one.
C4_AutomaticRecovery == (<>[]HeuristicClear) => [](isProtected => <>(~isProtected))

PollOutcome(i) == checkDevTools(pollers[i], G, dims, consoleCheck)

\* C5 (as claimed): a poll takes Guarded->Wiped exactly when the width delta
\* exceeds 220 or the height delta exceeds 300.
C5_Thresholds220_300 ==
    \A i \in 1..Len(pollers) :
        Guarded => (PollOutcome(i).g.isProtected <=> (dims[1] > 220 \/ dims[2] > 300))

\* C5 (amended): a poll takes Guarded->Wiped exactly when the polling loop's
\* own devtools-open flag is unset and a delta exceeds 160 (width or height)
\* or the console check is truthy; deltas of at most 160 never wipe by dimension.
C5_Thresholds160 ==
    \A i \in 1..Len(pollers) :
        Guarded => (PollOutcome(i).g.isProtected <=>
                      (~pollers[i].open /\ (dims[1] > 160 \/ dims[2] > 160 \/ consoleCheck)))

\* a poll has wiped at deltas 200 and 250
C5_Witness ==
    /\ isProtected /\ dims = <<200, 250>> /\ ~consoleCheck
    /\ \E i \in 1..Len(pollers) : pollers[i].open
    /\ Len(timers.print) = 0 /\ nInserted = 0 /\ nWipes = 1

\* C6: in the lighter variant a poll replaces the resume body by the warning
\* if and only if the width delta exceeds 220 or the height delta exceeds 300
\* (strictly): no wipe at deltas 0, none at exactly 220 and 300, a wipe at 300.
C6_LiteThresholds ==
    /\ (stage = "polling" /\ body = ResumeContent) =>
          (liteCheckDevTools(body, liteDims) = Warning
              <=> (liteDims[1] > 220 \/ liteDims[2] > 300))
    /\ liteCheckDevTools(ResumeContent, <<0, 0>>) = ResumeContent
    /\ liteCheckDevTools(ResumeContent, <<220, 300>>) = ResumeContent
    /\ liteCheckDevTools(ResumeContent, <<300, 0>>) = Warning

\* the poll has wiped at a width delta of 300
C6_Witness == stage = "polling" /\ body = Warning /\ liteDims = <<300, 0>>

LiteClear == ~(suspiciousWidth(liteDims) \/ suspiciousHeight(liteDims))

\* C7 (as claimed): in the lighter variant, once the heuristic stays clear
\* the resume content is shown again.
C7_LiteRecovers == (<>[]LiteClear) => <>[](body = ResumeContent)

\* C7 (amended): in the lighter variant Wiped is absorbing: once the warning
\* has replaced the body, no poll and no change of the deltas brings the
\* resume content back.
C7_LiteWipedAbsorbing == [][body = Warning => body' = Warning]_vars

\* wiped, the heuristic clear again, and still wiped
C7_Witness == body = Warning /\ liteDims = <<0, 0>> /\ stage = "polling"

KeyOutcome(e) == keydownAll(keydownListeners, e, [g |-> G, prevented |-> FALSE, print |-> 0])

InsertOutcome(node) == observeAll(observers, node, [G EXCEPT !.dom = Append(dom, node)])

\* C9: while Guarded, every method of the overridden console and every
\* inserted SCRIPT or IFRAME element wipes, whatever the dimension heuristic
\* says; an inserted node of another kind does not.
C9_NonDimensionTriggers ==
    Guarded =>
        /\ consoleOverridden /\ observers >= 1
        /\ \A m \in ConsoleMethods : consoleCall(m, G).isProtected
        /\ \A node \in InsertableNodes :
              InsertOutcome(node).isProtected
                 <=> node \in {Element("SCRIPT"), Element("IFRAME")}

\* an inserted IFRAME has wiped the page with the heuristic clear
C9_Witness ==
    /\ isProtected /\ HeuristicClear /\ nInserted = 1 /\ nWipes = 1
    /\ lastWiped # Null /\ lastWiped[Len(lastWiped)] = Element("IFRAME")
    /\ \A i \in 1..Len(pollers) : ~pollers[i].open

\* C10: the saved snapshot is the one of the most recent Guarded->Wiped
\* transition, and no snapshot is written back by more than one restoration,
\* also with several restore timeouts pending and several polling loops.
C10_SnapshotRestoredOnce ==
    /\ restoredCount <= 1
    /\ originalContent # Null => originalContent = lastWiped
    /\ (timers.restore # <<>> /\ restoreGuard(G)) =>
          /\ restoredCount = 0
          /\ restoreOriginalContent(G).dom = setInnerHTML(lastWiped)

\* restored once while a second restore timeout is still pending
C10_Witness ==
    /\ ~isProtected /\ restoredCount = 1 /\ Len(timers.restore) >= 1
    /\ Len(pollers) >= 1

(* ---------------- Resume Exporter ---------------- *)
\* the two ways the pending promise of a closure can settle, applied to the
\* current inline styles
Settlements(closure) ==
    {thenCallback(Styles, closure), catchCallback(Styles, closure)}

\* C11: whichever of the then and catch callbacks of a pending export runs, it
\* leaves every property recorded in the snapshot (background,
\* webkitBackgroundClip, webkitTextFillColor, backgroundClip of each gradient
\* element; borderRadius, border, overflow of the container) at the value the
\* property had when that export was invoked.
C11_SnapshotRestored ==
    \A i \in 1..Len(exports) : \A r \in Settlements(exports[i]) :
        /\ \A c \in GradientClasses : \A p \in SnapshotProps :
              r.elementStyle[c][p] = exports[i].pre.elementStyle[c][p]
        /\ \A p \in ContainerProps :
              r.containerStyle[p] = exports[i].pre.containerStyle[p]

\* an export of a page with inline gradient styles has failed and the snapshot
\* properties are back
C11_Witness ==
    /\ lastOutcome = "failure" /\ exports = <<>> /\ nExports = 1
    /\ elementStyle["company"]["background"] = InlineValue("background")
    /\ elementStyle["grade"]["backgroundClip"] = InlineValue("backgroundClip")
    /\ containerStyle["overflow"] = InlineValue("overflow")

\* C12: whichever callback of a pending export runs, every inline property that
\* downloadResume assigns (the nine properties of each gradient element, the
\* three of the container, the display of the button) has afterwards the value
\* it had when that export was invoked.
C12_NoNetEffect ==
    \A i \in 1..Len(exports) : \A r \in Settlements(exports[i]) :
        /\ r.elementStyle = exports[i].pre.elementStyle
        /\ r.containerStyle = exports[i].pre.containerStyle
        /\ r.btnDisplay = exports[i].pre.btnDisplay

\* C13: the then callback and the catch callback of a pending export lead to the
\* same inline styles of the gradient elements, the container and the button.
C13_BranchesConverge ==
    \A i \in 1..Len(exports) :
        thenCallback(Styles, exports[i]) = catchCallback(Styles, exports[i])

\* an export is pending on a page whose container and elements carry inline
\* styles, so that both callbacks have something to restore
C13_Witness ==
    /\ Len(exports) = 1 /\ nExports = 1
    /\ exports[1].pre.containerStyle["border"] = InlineValue("border")
    /\ exports[1].pre.elementStyle["degree"]["webkitTextFillColor"]
          = InlineValue("webkitTextFillColor")
    /\ btnDisplay = "none"

\* C14: the download button is hidden while the one export invoked so far is
\* pending, and once downloadResume has been invoked and no export is pending
\* the button is not hidden, however the pipeline call ended.
C14_ButtonShownAgain ==
    /\ (nExports = 1 /\ Len(exports) = 1) => btnDisplay = "none"
    /\ (nExports > 0 /\ exports = <<>>) => btnDisplay # "none"

(* ---------------- Navigation Builder ---------------- *)
\* the documented rules, most specific first: the directories a path must
\* contain, the section and the base path
SectionRules ==
    << [dirs |-> <<"travel", "pages">>, section |-> "travel",
        base |-> <<"..", "..", "..">>],
       [dirs |-> <<"travel">>, section |-> "travel", base |-> <<"..", "..">>],
       [dirs |-> <<"tech">>, section |-> "tech", base |-> <<"..", "..">>],
       [dirs |-> <<"gpt">>, section |-> "gpt", base |-> <<"..">>] >>
Matching(path) == {k \in 1..Len(SectionRules) : includes(path, SectionRules[k].dirs)}
\* the first rule that matches, 0 when none does
FirstRule(path) ==
    IF Matching(path) = {} THEN 0
    ELSE CHOOSE k \in Matching(path) : \A j \in Matching(path) : k <= j
RuleSection(path) ==
    IF FirstRule(path) = 0 THEN "portfolio" ELSE SectionRules[FirstRule(path)].section
RuleBase(path) ==
    IF FirstRule(path) = 0 THEN <<".">> ELSE SectionRules[FirstRule(path)].base

\* the pages the documentation names, and a page of the nested travel directory
RootIndex == <<"index.html">>
TravelIndex == <<"travel", "index.html">>
TravelPage == <<"travel", "pages", "x.html">>
TechIndex == <<"tech", "tech-index.html">>
GptIndex == <<"gpt", "gpt-index.html">>
DocumentedPages == {RootIndex, TravelIndex, TravelPage, TechIndex, GptIndex}

\* C15: the section a Navigation computes is the section of the first documented
\* rule its path matches, portfolio when none matches; so it is one of the four
\* sections, and the root, the index and the documented pages of /travel/,
\* /travel/pages/, /tech/ and /gpt/ get their documented section.
C15_SectionOfFirstRule ==
    nNavigations > 0 =>
        /\ currentPage = RuleSection(pathname)
        /\ currentPage \in {"travel", "tech", "gpt", "portfolio"}
        /\ pathname \in {<<"">>, RootIndex} => currentPage = "portfolio"
        /\ pathname \in {TravelIndex, TravelPage, <<"travel", "">>}
              => currentPage = "travel"
        /\ pathname \in {TechIndex, <<"tech", "">>} => currentPage = "tech"
        /\ pathname \in {GptIndex, <<"gpt", "">>} => currentPage = "gpt"

\* a Navigation was built on a path that matches the tech rule and the gpt rule
C15_Witness ==
    /\ nNavigations > 0
    /\ pathname = <<"gpt", "tech", "x.html">>
    /\ currentPage = "tech"

\* a prefix of d steps up, './' for d = 0
RECURSIVE Ascend(_)
Ascend(d) == IF d = 0 THEN <<>> ELSE <<"..">> \o Ascend(d - 1)
StepsUp(d) == IF d = 0 THEN <<".">> ELSE Ascend(d)

\* C16: on a documented page whose file lies d directories below the root, the
\* portfolio link of the rendered navigation is d steps up ('./' when d = 0)
\* followed by index.html, and it resolves to the root index.
C16_AscentEqualsDepth ==
    (nNavigations > 0 /\ pathname \in DocumentedPages) =>
        /\ getBasePath(pathname) = StepsUp(Len(pathname) - 1)
        /\ navContainer.navItems[1].href
              = StepsUp(Len(pathname) - 1) \o <<"index.html">>
        /\ Resolve(pathname, navContainer.navItems[1].href) = RootIndex

\* C17: the base path of a path is the base path of the first documented rule
\* the path matches, the rule that also gives the section a Navigation computes:
\* '../../../' with '/travel/pages/', '../../' with '/travel/' or '/tech/',
\* '../' with '/gpt/', './' for the portfolio default.
C17_BaseOfSameRule ==
    nNavigations > 0 =>
        /\ getBasePath(pathname) = RuleBase(pathname)
        /\ currentPage = RuleSection(pathname)
        /\ currentPage = "portfolio" <=> getBasePath(pathname) = <<".">>
        /\ currentPage = "gpt" <=> getBasePath(pathname) = <<"..">>
        /\ currentPage \in {"travel", "tech"}
              <=> getBasePath(pathname) \in {<<"..", "..">>, <<"..", "..", "..">>}
        /\ getBasePath(pathname) = <<"..", "..", "..">>
              <=> includes(pathname, <<"travel", "pages">>)
        /\ navContainer.navItems[1].href = RuleBase(pathname) \o <<"index.html">>

\* a Navigation was built on a path that contains '/tech/' and '/gpt/'
C17_Witness ==
    /\ nNavigations > 0
    /\ pathname = <<"tech", "gpt", "index.html">>
    /\ navContainer.navItems[1].href = <<"..", "..", "index.html">>

\* C18: the travel link of the rendered navigation is '../index.html' on every
\* path that contains '/travel/pages/', and the base path followed by
\* travel/index.html on every other path.
C18_TravelLink ==
    nNavigations > 0 =>
        navContainer.navItems[2].href
            = IF includes(pathname, <<"travel", "pages">>)
                 THEN <<"..", "index.html">>
                 ELSE getBasePath(pathname) \o <<"travel", "index.html">>

\* the navigation of a nested travel page is rendered
C18_Witness ==
    /\ nNavigations > 0
    /\ pathname = TravelPage
    /\ navContainer.navItems[2].href = <<"..", "index.html">>
    /\ Resolve(pathname, navContainer.navItems[2].href) = TravelIndex

Rendered == navContainer.navItems
ActiveItems == {i \in 1..Len(Rendered) : "active" \in Rendered[i].classes}

\* C19: in the rendered navigation an item is active exactly when its id is the
\* current section; exactly one of the five items is active and it is not the
\* YouTube item; only the YouTube item has target _blank; only the GPT item has
\* the gpt-nav-item class and the gpt-icon and gpt-text spans; on
\* /gpt/gpt-index.html the GPT item is active and the base path is '../'.
C19_RenderedItems ==
    nNavigations > 0 =>
        /\ Len(Rendered) = 5
        /\ \A i \in 1..5 :
              /\ i \in ActiveItems <=> getNavItems(pathname)[i].id = currentPage
              /\ Rendered[i].target = "_blank" <=> i = 3
              /\ "gpt-nav-item" \in Rendered[i].classes <=> i = 5
              /\ Rendered[i].children = <<"span.gpt-icon", "span.gpt-text">> <=> i = 5
        /\ getNavItems(pathname)[3].id = "youtube"
        /\ getNavItems(pathname)[5].id = "gpt"
        /\ Cardinality(ActiveItems) = 1
        /\ 3 \notin ActiveItems
        /\ pathname = GptIndex =>
              /\ ActiveItems = {5}
              /\ Rendered[5].href = <<"..", "gpt", "gpt-index.html">>

\* the navigation of /gpt/gpt-index.html is rendered
C19_Witness ==
    /\ nNavigations > 0
    /\ pathname = GptIndex
    /\ "active" \in navContainer.navItems[5].classes
    /\ getBasePath(pathname) = <<"..">>

\* C20: once a Navigation has been constructed on a document, however many
\* times, exactly one element of the document matches '#nav-styles'.
C20_OneStyleBlock ==
    /\ nNavigations > 0 => navStyles = 1
    /\ nNavigations = 0 => navStyles = 0

\* a third Navigation has been constructed on the same document
C20_Witness ==
    /\ nNavigations = MaxNavigations
    /\ navStyles = 1

(* ---------------- Page Loader ---------------- *)
Done(f) == fetches[f].stage = "done"
Container(f) == containers[ContainerId(f)]

\* C21: a container is replaced only by a finished fetch and then holds the
\* fetched text; setActiveNav is called exactly once, when the navbar fetch
\* has finished, never for the other two fragments and never before
\* #navbar-include holds the fetched text: the links it has marked are the
\* links of that text.
C21_CallbackAfterInjection ==
    /\ \A f \in Fragments :
          /\ Done(f) => Container(f) = Body(File(f), fetches[f].status)
          /\ ~Done(f) => Container(f) = EmptyHTML
    /\ callbackCalls = (IF Done("navbar") THEN 1 ELSE 0)
    /\ callbackCalls > 0 =>
          /\ Container("navbar") # EmptyHTML
          /\ navLinks = setActiveNav(loaderPath,
                                     LinksOf(Container("navbar"), navbarFile))

\* the navbar fragment arrived first and its callback has marked a link, the
\* header is still being fetched
C21_Witness ==
    /\ Done("navbar") /\ fetches["navbar"].status = "200"
    /\ fetches["header"].stage = "fetching"
    /\ callbackCalls = 1
    /\ loaderPath = <<"/">>
    /\ <<"/", "index.html">> \in DOMAIN navLinks
    /\ navLinks[<<"/", "index.html">>]
    /\ ~navbarFile[<<"/", "index.html">>]

\* C22: a fragment whose fetch was rejected leaves its container empty, its
\* callback uncalled and the navbar links absent, and no fragment is ever
\* requested a second time.
C22_RejectedIsSilent ==
    /\ \A f \in Fragments : fetches[f].requests <= 1
    /\ \A f \in Fragments :
          fetches[f].stage = "rejected" =>
              /\ Container(f) = EmptyHTML
              /\ fetches[f].requests = 1
              /\ HasCallback(f) => (callbackCalls = 0 /\ DOMAIN navLinks = {})

\* the navbar fetch was rejected while the header was injected
C22_Witness ==
    /\ fetches["navbar"].stage = "rejected"
    /\ Done("header") /\ fetches["header"].status = "200"
    /\ Container("navbar") = EmptyHTML
    /\ callbackCalls = 0

\* C23: for a fragment whose file is missing, whether its fetch was rejected or
\* answered with status 404, the container stays empty and the callback is
\* not called.
C23_MissingFileNoOp ==
    \A f \in Fragments :
        (fetches[f].stage = "rejected" \/ (Done(f) /\ fetches[f].status = "404")) =>
            /\ Container(f) = EmptyHTML
            /\ HasCallback(f) => callbackCalls = 0

Settled(f) == fetches[f].stage \in {"done", "rejected"}

\* C24: every container holds nothing or a response for its own file, at all
\* times; once the three fetches have settled, each fragment answered with 200
\* has exactly its file's text in its container, whatever happened to the
\* other two and in whatever order.
C24_FragmentsIndependent ==
    /\ \A f \in Fragments :
          Container(f) \in {EmptyHTML, Body(File(f), "200"), Body(File(f), "404")}
    /\ (\A f \in Fragments : Settled(f)) =>
          \A f \in Fragments :
              /\ (Done(f) /\ fetches[f].status = "200")
                    => Container(f) = Body(File(f), "200")
              /\ fetches[f].stage = "rejected" => Container(f) = EmptyHTML

\* the footer fetch failed, the header and the navbar were injected, the navbar
\* last
C24_Witness ==
    /\ fetches["footer"].stage = "rejected"
    /\ Container("header") = Body("header.html", "200")
    /\ Container("navbar") = Body("navbar.html", "200")
    /\ Container("footer") = EmptyHTML

ActiveLinks == {h \in DOMAIN navLinks : navLinks[h]}
\* the path setActiveNav compares with
NormalisedPath ==
    IF loaderPath = <<"/">> \/ endsWith(loaderPath, <<"/", "index.html">>)
       THEN <<"/", "index.html">> ELSE loaderPath

\* C28: after setActiveNav has run on links with distinct hrefs at most one link
\* is active, and an active link has an href the normalised path ends with.
C28_AtMostOneActive ==
    callbackCalls > 0 =>
        /\ Cardinality(ActiveLinks) <= 1
        /\ \A h \in ActiveLinks : endsWith(NormalisedPath, h)

(* ---------------- mobile navigation ---------------- *)
MenuOpen == "mobile-nav-active" \in bodyClasses

\* C30: from the closed state, after any clicks on the toggle and on .scrollto
\* links, the toggle has bi-x exactly when the body has mobile-nav-active and
\* bi-list exactly when it has not, and a click on a .scrollto link whose
\* target exists leaves the menu closed, with bi-list and without bi-x.
C30_ToggleInvariant ==
    /\ "bi-x" \in toggleClasses <=> MenuOpen
    /\ "bi-list" \in toggleClasses <=> ~MenuOpen
    /\ \A hash \in ExistingTargets :
          LET after == scrolltoClick(MenuState, hash)
          IN /\ "mobile-nav-active" \notin after.bodyClasses
             /\ "bi-list" \in after.toggleClasses
             /\ "bi-x" \notin after.toggleClasses

\* the menu was opened after a .scrollto click had scrolled to a section
C30_Witness ==
    /\ MenuOpen
    /\ scrolledTo = "#about"
    /\ "bi-x" \in toggleClasses /\ "bi-list" \notin toggleClasses

(* ---------------- device exemption, resume.js ---------------- *)
\* C25: the desktop-only listeners are installed exactly on a device that is
\* neither mobile nor tablet; a tablet has the context menu blocked, and so has
\* a desktop, and no other device; and on every device the interval, once
\* started, replaces the page by the warning when the dimensions are suspicious.
C25_DeviceExemption ==
    /\ desktopRestrictions <=> (~isMobile /\ ~isTablet)
    /\ isTablet => contextMenuBlocked
    /\ contextMenuBlocked <=> (isTablet \/ desktopRestrictions)
    /\ stage \in {"loading", "delay", "polling"}
    /\ (stage = "polling" /\ (suspiciousWidth(liteDims) \/ suspiciousHeight(liteDims)))
          => liteCheckDevTools(body, liteDims) = Warning

\* a tablet without the desktop restrictions, with the context menu blocked,
\* whose poll has replaced the page by the warning
C25_Witness ==
    /\ isTablet /\ isMobile
    /\ ~desktopRestrictions /\ contextMenuBlocked
    /\ stage = "polling"
    /\ body = Warning

(* ---------------- Client Guard, continued ---------------- *)
HasPanel(markup) == \E i \in 1..Len(markup) : markup[i] = newBody

\* C26: while isProtected is true, removeHtmlElements and every wipe trigger
\* (key, console call, poll, inserted node) leave isProtected, the snapshot and
\* the document as they are; while it is false, removeHtmlElements saves the
\* markup the document has before it is cleared; and the snapshot never
\* contains the protection-message panel.
C26_WipeIsNoOpWhenWiped ==
    /\ isProtected =>
          /\ removeHtmlElements(G) = G
          /\ \A e \in KeyEvents : KeyOutcome(e).g = G
          /\ keyupAll(keydownListeners, PrintScreen, [g |-> G, prevented |-> FALSE]).g = G
          /\ \A m \in ConsoleMethods : consoleCall(m, G) = G
          /\ \A i \in 1..Len(pollers) : PollOutcome(i).g = G
          /\ \A node \in InsertableNodes :
                InsertOutcome(node) = [G EXCEPT !.dom = Append(dom, node)]
    /\ ~isProtected =>
          /\ removeHtmlElements(G).originalContent = getInnerHTML(dom)
          /\ ~HasPanel(dom)
    /\ ~HasPanel(originalContent)

\* wiped a second time, after a restoration, with triggers installed twice
C26_Witness ==
    /\ isProtected /\ nWipes = 2 /\ restoredCount = 0
    /\ keydownListeners >= 2
    /\ HasPanel(dom) /\ ~HasPanel(originalContent)

\* polling loops running or about to be started by a pending re-arm timeout
LoopsDue == Len(pollers) + Len(timers.rearm)

\* C27: no step removes a polling loop or a debugger interval or changes a
\* loop's period; a restoration sets exactly one re-arm timeout and each re-arm
\* timeout that fires starts exactly one further polling loop and debugger
\* interval, leaving the flags of the running loops alone; so the loops only
\* grow, by one per restoration.
C27_IntervalsNeverCancelled ==
    [][/\ Len(pollers') >= Len(pollers)
       /\ debuggerIntervals' >= debuggerIntervals
       /\ \A i \in 1..Len(pollers) : pollers'[i].period = pollers[i].period
       /\ LoopsDue' = LoopsDue + (IF Restoration \/ (~started /\ started') THEN 1 ELSE 0)
       /\ Len(pollers') > Len(pollers) =>
             /\ Len(pollers') = Len(pollers) + 1
             /\ debuggerIntervals' = debuggerIntervals + 1
             /\ SubSeq(pollers', 1, Len(pollers)) = pollers
             /\ pollers'[Len(pollers')].period = PollPeriod]_vars

\* after a restoration two loops run, through a second wipe, each with its own
\* flag
C27_Witness ==
    /\ Len(pollers) = 2 /\ debuggerIntervals = 2
    /\ isProtected /\ nWipes = 2
    /\ pollers[1].open # pollers[2].open

(* ---------------- Resume Exporter, continued ---------------- *)
\* the two ways the promise of a closure can settle, applied to the styles s
SettleFrom(s, closure) == {thenCallback(s, closure), catchCallback(s, closure)}

\* the properties the snapshots record
SnapshotPart(s) ==
    [elementStyle |-> [c \in GradientClasses |->
                          [p \in SnapshotProps |-> s.elementStyle[c][p]]],
     containerStyle |-> [p \in ContainerProps |-> s.containerStyle[p]]]

\* C29: with a second export invoked while the first is pending, whichever of
\* the two settles first and whichever callbacks run, the snapshot properties
\* of the container and of the gradient elements have afterwards the values
\* they had before the first invocation.
C29_OverlapRestoresFirst ==
    (nExports = 2 /\ Len(exports) = 2) =>
        \A order \in {<<1, 2>>, <<2, 1>>} :
            \A s1 \in SettleFrom(Styles, exports[order[1]]) :
                \A s2 \in SettleFrom(s1, exports[order[2]]) :
                    SnapshotPart(s2) = SnapshotPart(exports[1].pre)

====
